---- MODULE Spec2Model ----
\* Workflow monitor of framework/workflow_runner.py (WorkflowRunner): the
\* monitor thread (_start_monitoring and what it calls), the caller-side
\* thread management (shutdown, force_shutdown, cleanup) and the function
\* instances whose status and invocations the monitor reads.
EXTENDS Integers, Sequences, FiniteSets, TLC

\* ---------------------------------------------------------------- bounds
\* `timeout` argument of WorkflowRunner, in seconds (scaled down).
Timeout == 2
\* `check_interval` argument of WorkflowRunner (CHECK_INTERVAL of the tests).
CheckInterval == 1

\* Largest rank count of a drawn payload.
MaxRank == 2

\* Lines the log artifact of a function grows to.
MaxLines == 3
\* Callbacks registered on a function logger.
MaxCallbacks == 2

\* Keys of the bucket.
MaxKeys == 2

\* The bucket behind FaaSrS3Client (s3_client.py).
VARIABLES
    store,             \* the keys that hold an object
    s3_fault,          \* what the store answers with: "none" when it works,
                       \* the error code of a ClientError, or the name of
                       \* an exception that is not a ClientError
    s3_result          \* the last call of the client and what it gave

s3 == <<store, s3_fault, s3_result>>

\* ------------------------------------------------------------- workflows
VARIABLES
    b_adj,             \* adjacency graph of a drawn payload
    b_ranks,           \* rank counts of a drawn payload
    b_rev              \* reverse_adj_graph built from it, <<>> before

builder == <<b_adj, b_ranks, b_rev>>

\* The FaaSrFunctionLogger of one function (faasr_function_logger.py).
VARIABLES
    artifact,          \* the log object on S3: <<>> while it does not exist,
                       \* <<t>> with t the sequence of its newline-terminated
                       \* lines; a line is 0 when blank, else its line number
    logs,              \* _logs
    logs_started,
    logs_complete,
    stop_requested,
    callbacks,         \* _callbacks
    delivered,         \* the calls callback(event) made so far, in order
    events,            \* the events _call_callbacks was called with, in order
    raised,            \* the callbacks that have raised an Exception so far
    new_logs,          \* local of _run
    log_pc             \* position of the logger thread

log_monitor == <<artifact, logs, logs_started, logs_complete, stop_requested,
                 callbacks, delivered, events, raised, new_logs, log_pc>>

\* The locks: the thread inside a `with` block of the lock, "free" when none.
VARIABLES
    _lock,             \* FaaSrFunctionLogger._lock
    _status_lock       \* WorkflowRunner._status_lock

locks == <<_lock, _status_lock>>

\* The payloads the runner is constructed from: ActionList keys in order,
\* the adjacency graph and rank counts build_adjacency_graph returns, and
\* FunctionInvoke.
\*   chain:  a -> b -> c
\*   merge:  a -> b, a -> c, b -> c          (c has two invokers)
\*   roots:  a -> c, b -> c, listed c, a, b  (b is invoked by nothing)
\*   ranked: a -> b, a with two ranks        (b has a ranked invoker)
\* and "drawn", the payload over a, b, c whose graph and rank counts are
\* b_adj and b_ranks.
Workflows == {"chain", "merge", "roots", "ranked"}
Nodes == {"a", "b", "c"}

function_names(w) ==
    CASE w = "chain"   -> <<"a", "b", "c">>
      [] w = "merge"   -> <<"a", "b", "c">>
      [] w = "roots"   -> <<"c", "a", "b">>
      [] w = "ranked"  -> <<"a", "b">>
      [] w = "drawn"   -> <<"a", "b", "c">>

adj_graph(w) ==
    CASE w = "chain"   -> [n \in {"a", "b", "c"} |->
                             CASE n = "a" -> {"b"} [] n = "b" -> {"c"} [] OTHER -> {}]
      [] w = "merge"   -> [n \in {"a", "b", "c"} |->
                             CASE n = "a" -> {"b", "c"} [] n = "b" -> {"c"} [] OTHER -> {}]
      [] w = "roots"   -> [n \in {"a", "b", "c"} |->
                             CASE n = "a" -> {"c"} [] n = "b" -> {"c"} [] OTHER -> {}]
      [] w = "ranked"  -> [n \in {"a", "b"} |->
                             CASE n = "a" -> {"b"} [] OTHER -> {}]
      [] w = "drawn"   -> b_adj

ranks(w) ==
    IF w = "drawn" THEN b_ranks
    ELSE [n \in DOMAIN adj_graph(w) |-> IF w = "ranked" /\ n = "a" THEN 2 ELSE 1]

workflow_invoke(w) == "a"

\* ------------------------------------------------------------ status sets
FunctionStatus ==
    {"PENDING", "INVOKED", "NOT_INVOKED", "RUNNING", "COMPLETED", "FAILED",
     "SKIPPED", "TIMEOUT"}

pending(s) == s = "PENDING"
failed(s) == s = "FAILED"
has_completed(s) == s \in {"COMPLETED", "NOT_INVOKED"}
has_final_state(s) == s \in {"COMPLETED", "FAILED", "NOT_INVOKED", "SKIPPED", "TIMEOUT"}

\* ------------------------------------------------------- graph, instances
\* An instance name is <<base, rank>>; rank 0 is a name without a suffix.
extract_function_name(name) == name[1]

\* _iter_ranks with range(1, ranks) for the ranked case.
_iter_ranks_short(w, n) ==
    IF ranks(w)[n] <= 1
    THEN << <<n, 0>> >>
    ELSE [r \in 1..(ranks(w)[n] - 1) |-> <<n, r>>]

_iter_ranks(w, n) ==
    IF ranks(w)[n] <= 1
    THEN << <<n, 0>> >>
    ELSE [r \in 1..ranks(w)[n] |-> <<n, r>>]

RECURSIVE Chain(_)
\* itertools.chain over a sequence of sequences.
Chain(ss) == IF ss = <<>> THEN <<>> ELSE Head(ss) \o Chain(Tail(ss))

\* The keys of _functions in insertion order.
FunctionOrder(w) ==
    Chain([i \in 1..Len(function_names(w)) |-> _iter_ranks(w, function_names(w)[i])])

Range(s) == {s[i] : i \in 1..Len(s)}

\* The inner loop with the two roles exchanged.
AddInvoker_forward(rev, invoker, invoked_functions) ==
    [v \in DOMAIN rev |-> IF v = invoker THEN rev[v] \cup invoked_functions ELSE rev[v]]

\* The inner loop of _build_reverse_adjacency_graph:
\* reverse_adj_graph[function].add(invoker) for every invoked function.
AddInvoker(rev, invoker, invoked_functions) ==
    [v \in DOMAIN rev |-> IF v \in invoked_functions THEN rev[v] \cup {invoker} ELSE rev[v]]

RECURSIVE ReverseFold(_, _, _)
\* The outer loop over adj_graph.items().
ReverseFold(adj, invokers, rev) ==
    IF invokers = <<>> THEN rev
    ELSE ReverseFold(adj, Tail(invokers),
                     AddInvoker(rev, Head(invokers), adj[Head(invokers)]))

\* A key the defaultdict does not hold reads as the empty set.
_build_reverse_adjacency_graph(w) ==
    ReverseFold(adj_graph(w), function_names(w), [v \in DOMAIN adj_graph(w) |-> {}])

\* The orders in which iterating the set S can yield its elements.
IterOrders(S) == {s \in [1..Cardinality(S) -> S] : Range(s) = S}

\* One iteration order for every set of the reverse adjacency graph.
SetOrders(w) ==
    LET rev == _build_reverse_adjacency_graph(w)
    IN  {f \in [DOMAIN rev -> UNION {IterOrders(rev[n]) : n \in DOMAIN rev}] :
            \A n \in DOMAIN rev : f[n] \in IterOrders(rev[n])}

\* ----------------------------------------------------------------- state
VARIABLES
    env,               \* os.environ: each required variable is "unset",
                       \* "empty" (set to the empty string) or "set"
    workflow,          \* the payload the runner was constructed from
    set_order,         \* iteration order of each set of reverse_adj_graph
    status,            \* _functions[name].status
    invocations,       \* _functions[name].invocations: <<>> is None, <<S>> is S
    prev_statuses,     \* _prev_statuses
    seconds_since_last_change,
    since_reset,       \* time.time() - last_change_time
    since_change,      \* seconds since any instance last changed status
    monitoring_complete,
    shutdown_requested,
    pc,                \* position of the monitoring thread
    idx,               \* position of its current for loop over _functions
    workflow_failed,   \* local of _monitor_workflow_execution
    exit_cause,        \* how the while loop of _start_monitoring was left; a
                       \* timeout less than Timeout seconds after a status
                       \* change is "timeout_after_change"
    tick_known,        \* instances whose invocations were known when the tick began
    status_log,        \* the records _log_status_change wrote in the latest
                       \* visit of the tick under way, <<f, s>> each
    caller_pc,         \* position of the caller thread
    returned           \* what the last shutdown() gave back, "none" until it returns

timer == <<seconds_since_last_change, since_reset, since_change>>
flags == <<monitoring_complete, shutdown_requested>>
functions == <<status, invocations, prev_statuses>>
monitor == <<pc, idx, workflow_failed, exit_cause, tick_known, status_log>>
caller == <<caller_pc, returned>>
config == <<env, workflow, set_order, s3, locks>>
others == <<builder, log_monitor>>
vars == <<others, config, functions, timer, flags, monitor, caller>>

Names == Range(FunctionOrder(workflow))
None == <<>>
Known(inv, f) == inv[f] # None

\* _monitoring_thread.is_alive()
is_alive == pc \in {"reset", "loop_head", "tick", "tick_end", "cascade", "sleep",
                    "finish"}

\* No payload is drawn.
BuilderIdle == b_adj = <<>> /\ b_ranks = <<>> /\ b_rev = <<>>

REQUIRED_ENV_VARS ==
    {"S3_AccessKey", "S3_SecretKey", "GH_PAT", "GITHUB_REPOSITORY", "GITHUB_REF_NAME"}

\* os.getenv(var) is a true value.
getenv(e, var) == e[var] = "set"

\* _validate_environment that only looks at the S3 credentials.
_validate_environment_s3_only(e) ==
    {var \in {"S3_AccessKey", "S3_SecretKey"} : ~getenv(e, var)}
\* _validate_environment: missing_env_vars; InitializationError is raised
\* when it is not empty.
_validate_environment(e) == {var \in REQUIRED_ENV_VARS : ~getenv(e, var)}

\* An empty bucket that works, and no call made.
StoreIdle == store = {} /\ s3_fault = "none" /\ s3_result = <<>>

\* threading.Lock(): nothing holds a new lock.
LocksFree == _lock = "free" /\ _status_lock = "free"

\* The fields of a runner before _start, in an environment that passed
\* _validate_environment.
Constructed ==
    /\ StoreIdle
    /\ LocksFree
    /\ env = [var \in REQUIRED_ENV_VARS |-> "set"]
    /\ status = <<>>
    /\ invocations = <<>>
    /\ prev_statuses = <<>>
    /\ seconds_since_last_change = 0
    /\ since_reset = 0
    /\ since_change = 0
    /\ monitoring_complete = FALSE
    /\ shutdown_requested = FALSE
    /\ pc = "init"
    /\ idx = 0
    /\ workflow_failed = FALSE
    /\ exit_cause = "none"
    /\ tick_known = {}
    /\ status_log = <<>>
    /\ caller_pc = "idle"
    /\ returned = "none"

\* FaaSrFunctionLogger.__init__.
LoggerNew ==
    /\ artifact = <<>>
    /\ logs = <<>>
    /\ logs_started = FALSE
    /\ logs_complete = FALSE
    /\ stop_requested = FALSE
    /\ callbacks = <<>>
    /\ delivered = <<>>
    /\ events = <<>>
    /\ raised = {}
    /\ new_logs = <<>>
    /\ log_pc = "new"

Init ==
    /\ BuilderIdle
    /\ LoggerNew
    /\ workflow \in Workflows
    /\ set_order \in SetOrders(workflow)
    /\ Constructed

\* ------------------------------------------------- function instances
\* set_status that overwrites whatever status the instance has.
set_status_accepts_all(st, f) == FALSE

\* FaaSrFunction.set_status: an already final status is not overwritten,
\* the attempt is a fatal error of the calling thread.
set_status_rejects(st, f) == has_final_state(st[f])

set_status(st, f, new) ==
    IF set_status_rejects(st, f) THEN st ELSE [st EXCEPT ![f] = new]

\* _build_functions that seeds every node nothing invokes.
_build_functions_roots(w) ==
    [f \in Range(FunctionOrder(w)) |->
        IF \A u \in DOMAIN adj_graph(w) : extract_function_name(f) \notin adj_graph(w)[u]
        THEN "INVOKED" ELSE "PENDING"]

\* _build_functions: the instances of the entry point start INVOKED, all
\* others PENDING.
_build_functions(w) ==
    [f \in Range(FunctionOrder(w)) |->
        IF extract_function_name(f) = workflow_invoke(w) THEN "INVOKED" ELSE "PENDING"]

\* ------------------------------------------------------------- resolver
\* A member of InvocationStatus is a true value, None is not.
Truthy(r) == r # "None"

\* _get_invocation_status without the membership test.
_get_invocation_status_any(inv, invoker, function) ==
    IF Known(inv, invoker) THEN "INVOKED" ELSE "PENDING"

_get_invocation_status(inv, invoker, function) ==
    IF Known(inv, invoker)
    THEN IF extract_function_name(function) \in inv[invoker][1]
         THEN "INVOKED"
         ELSE "NOT_INVOKED"
    ELSE "PENDING"

RECURSIVE FirstStatus(_, _, _)
\* The for loop of _check_invocation_status over the invoker instances.
FirstStatus(invokers, inv, function) ==
    IF invokers = <<>>
    THEN "NOT_INVOKED"
    ELSE LET r == _get_invocation_status(inv, Head(invokers), function)
         IN  IF Truthy(r) THEN r ELSE FirstStatus(Tail(invokers), inv, function)

\* The invoker instances of `function` in the order the chain yields them,
\* `ord` being the order in which the set of invokers is iterated.
InvokerInstances(w, ord) == Chain([i \in 1..Len(ord) |-> _iter_ranks(w, ord[i])])

_check_invocation_status(w, ord, inv, function) ==
    FirstStatus(InvokerInstances(w, ord), inv, function)

\* The status _handle_pending leaves a pending function with, r being the
\* result of _check_invocation_status.
_handle_pending(s, r) ==
    IF r = "INVOKED" THEN "INVOKED"
    ELSE IF r = "NOT_INVOKED" THEN "NOT_INVOKED"
    ELSE s

\* A visit that hands every instance to _handle_pending.
StatusAfterVisit_unguarded(s, r) == _handle_pending(s, r)
\* `if pending(function.status): self._handle_pending(function)` in the for
\* loop of _monitor_workflow_execution: the status of the instance after it.
StatusAfterVisit(s, r) == IF pending(s) THEN _handle_pending(s, r) ELSE s

\* ---------------------------------------------------------------- timer
_did_timeout(seconds) == seconds >= Timeout


\* ------------------------------------------------------- monitor thread
\* _start: build the functions, snapshot them, start the thread.
Start ==
    /\ pc = "init"
    /\ status' = _build_functions(workflow)
    /\ invocations' = [f \in Names |-> None]
    /\ prev_statuses' = status'
    /\ pc' = "reset"
    /\ UNCHANGED <<others, config, timer, flags, idx, workflow_failed, exit_cause,
                   tick_known, status_log, caller>>

\* _start_monitoring up to the loop: _reset_timer.
MonitorBegin ==
    /\ pc = "reset"
    /\ seconds_since_last_change' = 0
    /\ since_reset' = 0
    /\ pc' = "loop_head"
    /\ UNCHANGED <<others, config, functions, since_change, flags, idx, workflow_failed,
                   exit_cause, tick_known, status_log, caller>>

\* The while condition of _start_monitoring. Once the loop is left the clock
\* is no longer read and the seconds without change no longer counted.
LoopCheck ==
    /\ pc = "loop_head"
    /\ IF _did_timeout(seconds_since_last_change) \/ shutdown_requested
       THEN /\ pc' = "finish"
            /\ idx' = 1
            /\ exit_cause' =
                  IF ~_did_timeout(seconds_since_last_change) THEN "shutdown"
                  ELSE IF since_change >= Timeout THEN "timeout"
                  ELSE "timeout_after_change"
            /\ since_reset' = 0
            /\ since_change' = 0
            /\ UNCHANGED <<workflow_failed, tick_known>>
       ELSE /\ pc' = "tick"
            /\ idx' = 1
            /\ workflow_failed' = FALSE
            /\ tick_known' = {f \in Names : Known(invocations, f)}
            /\ UNCHANGED <<exit_cause, since_reset, since_change>>
    /\ UNCHANGED <<others, config, functions, seconds_since_last_change, flags,
                   status_log, caller>>

\* _log_status_change: the records written for an instance of status s; the
\* if chain has a branch for five of the statuses.
_log_status_change(f, s) ==
    IF s \in {"FAILED", "NOT_INVOKED", "INVOKED", "RUNNING", "COMPLETED"}
    THEN <<<<f, s>>>>
    ELSE <<>>
\* The if chain of _log_status_change, t[i] being what function.status gave
\* to its i-th test.
_log_status_change_reads(f, t) ==
    IF failed(t[1]) THEN <<<<f, "FAILED">>>>
    ELSE IF t[2] = "NOT_INVOKED" THEN <<<<f, "NOT_INVOKED">>>>
    ELSE IF t[3] = "INVOKED" THEN <<<<f, "INVOKED">>>>
    ELSE IF t[4] = "RUNNING" THEN <<<<f, "RUNNING">>>>
    ELSE IF t[5] = "COMPLETED" THEN <<<<f, "COMPLETED">>>>
    ELSE <<>>

\* One iteration of the for loop of _monitor_workflow_execution: f is the
\* instance examined, r the resolver's result for it, s its status after
\* _handle_pending.
TickStep ==
    /\ pc = "tick"
    /\ \E f \in {FunctionOrder(workflow)[idx]} :
       \E r \in {_check_invocation_status(
                    workflow, set_order[extract_function_name(f)], invocations, f)} :
       \E s \in {StatusAfterVisit(status[f], r)} :
       \E committed \in {s # status[f]} :
           /\ status' = IF committed THEN set_status(status, f, s) ELSE status
           /\ status_log' = IF prev_statuses[f] # s
                            THEN _log_status_change(f, s) ELSE <<>>
           /\ prev_statuses' = [prev_statuses EXCEPT ![f] = s]
           /\ seconds_since_last_change' =
                 IF committed THEN 0 ELSE seconds_since_last_change
           /\ since_reset' = IF committed THEN 0 ELSE since_reset
           /\ since_change' = IF committed THEN 0 ELSE since_change
           /\ workflow_failed' = (workflow_failed \/ failed(s))
           /\ IF failed(s) \/ idx = Len(FunctionOrder(workflow))
              THEN pc' = "tick_end" /\ idx' = 0
              ELSE pc' = "tick" /\ idx' = idx + 1
    /\ UNCHANGED <<others, config, invocations, flags, exit_cause, tick_known, caller>>

\* The status an instance of status s gives itself next.
OwnStep(s) ==
    IF s = "INVOKED" THEN {"RUNNING"}
    ELSE IF s = "RUNNING" THEN {"COMPLETED", "FAILED"}
    ELSE {}

\* One iteration of the for loop of _monitor_workflow_execution during
\* which the instance examined changes its own status. After the pending
\* test the iteration reads function.status eight times: in the comparison
\* with _prev_statuses, in the five tests of _log_status_change, in the
\* assignment to _prev_statuses and in the failed test; the p-th of these
\* reads is the first to give the new status `post`.
TickStepRacing ==
    /\ pc = "tick"
    /\ \E f \in {FunctionOrder(workflow)[idx]} :
       \E r \in {_check_invocation_status(
                    workflow, set_order[extract_function_name(f)], invocations, f)} :
       \E s \in {StatusAfterVisit(status[f], r)} :
       \E committed \in {s # status[f]} :
       \E post \in OwnStep(s) :
       \E p \in 1..8 :
       \E children \in IF post = "COMPLETED"
                        THEN SUBSET adj_graph(workflow)[extract_function_name(f)]
                        ELSE {{}} :
       \E seen \in {[i \in 1..8 |-> IF p <= i THEN post ELSE s]} :
       \E changed \in {prev_statuses[f] # seen[1]} :
           /\ status' = [status EXCEPT ![f] = post]
           /\ invocations' = IF post = "COMPLETED"
                             THEN [invocations EXCEPT ![f] = <<children>>]
                             ELSE invocations
           /\ status_log' = IF changed
                            THEN _log_status_change_reads(f, SubSeq(seen, 2, 6))
                            ELSE <<>>
           /\ prev_statuses' = IF changed
                               THEN [prev_statuses EXCEPT ![f] = seen[7]]
                               ELSE prev_statuses
           /\ seconds_since_last_change' =
                 IF committed THEN 0 ELSE seconds_since_last_change
           /\ since_reset' = IF committed THEN 0 ELSE since_reset
           /\ since_change' = 0
           /\ workflow_failed' = (workflow_failed \/ failed(seen[8]))
           /\ IF failed(seen[8]) \/ idx = Len(FunctionOrder(workflow))
              THEN pc' = "tick_end" /\ idx' = 0
              ELSE pc' = "tick" /\ idx' = idx + 1
    /\ UNCHANGED <<others, config, flags, exit_cause, tick_known, caller>>

\* _all_functions_completed with any() in place of all().
_all_functions_completed_some(st) == \E f \in DOMAIN st : has_completed(st[f])

_all_functions_completed(st) == \A f \in DOMAIN st : has_completed(st[f])

\* A try that catches every exception raised by a tick.
_start_monitoring_catches_all(exception) == TRUE
\* The except clause around _monitor_workflow_execution in _start_monitoring.
_start_monitoring_catches(exception) == exception = "StopMonitoring"

\* Reading the status or the invocations of an instance in a tick raises a
\* store failure other than not-found (S3ClientError). Caught, the loop goes
\* on to _increment_timer and the sleep; not caught, it ends the thread.
TickFault ==
    /\ pc = "tick"
    /\ pc' = IF _start_monitoring_catches("S3ClientError") THEN "sleep" ELSE "faulted"
    /\ idx' = 0
    /\ tick_known' = {}
    /\ status_log' = <<>>
    /\ IF _start_monitoring_catches("S3ClientError")
       THEN UNCHANGED <<since_reset, since_change>>
       ELSE since_reset' = 0 /\ since_change' = 0
    /\ UNCHANGED <<others, config, functions, seconds_since_last_change, flags,
                   workflow_failed, exit_cause, caller>>

\* The end of _monitor_workflow_execution and what _start_monitoring does
\* with its outcome.
TickEnd ==
    /\ pc = "tick_end"
    /\ IF _all_functions_completed(status)
       THEN /\ pc' = "finish" /\ idx' = 1 /\ exit_cause' = "completed"
            /\ since_reset' = 0 /\ since_change' = 0
       ELSE IF workflow_failed
       THEN /\ pc' = "cascade" /\ idx' = 1 /\ exit_cause' = "failure"
            /\ since_reset' = 0 /\ since_change' = 0
       ELSE /\ pc' = "sleep" /\ idx' = 0
            /\ UNCHANGED <<exit_cause, since_reset, since_change>>
    /\ tick_known' = {}
    /\ status_log' = <<>>
    /\ UNCHANGED <<others, config, functions, seconds_since_last_change, flags,
                   workflow_failed, caller>>

\* One iteration of the for loop of _cascade_failure; after the last one
\* StopMonitoring leaves the while loop. A rejected set_status ends the thread.
CascadeStep ==
    /\ pc = "cascade"
    /\ LET f == FunctionOrder(workflow)[idx]
           hit == ~has_completed(status[f])
           last == idx = Len(FunctionOrder(workflow))
       IN  IF hit /\ set_status_rejects(status, f)
           THEN /\ pc' = "crashed"
                /\ idx' = 0
                /\ UNCHANGED status
           ELSE /\ status' = IF hit THEN set_status(status, f, "SKIPPED") ELSE status
                /\ pc' = IF last THEN "finish" ELSE "cascade"
                /\ idx' = IF last THEN 1 ELSE idx + 1
    /\ UNCHANGED <<others, config, invocations, prev_statuses, timer, flags, workflow_failed,
                   exit_cause, tick_known, status_log, caller>>

\* _increment_timer, then time.sleep(check_interval).
IncrementAndSleep ==
    /\ pc = "sleep"
    /\ seconds_since_last_change' = since_reset
    /\ since_reset' = since_reset + CheckInterval
    /\ since_change' = since_change + CheckInterval
    /\ pc' = "loop_head"
    /\ UNCHANGED <<others, config, functions, flags, idx, workflow_failed, exit_cause,
                   tick_known, status_log, caller>>

\* _finish_monitoring that does not look at the shutdown request.
FinishStatus_timeout_only(s, shutdown) ==
    IF ~has_final_state(s) THEN "TIMEOUT" ELSE s

\* _finish_monitoring that leaves an instance that is still running alone.
FinishStatus_not_running(s, shutdown) ==
    IF s = "RUNNING" THEN s
    ELSE IF ~has_final_state(s) /\ shutdown THEN "SKIPPED"
    ELSE IF ~has_final_state(s) THEN "TIMEOUT"
    ELSE s

\* The status the for loop of _finish_monitoring leaves an instance with.
FinishStatus(s, shutdown) ==
    IF ~has_final_state(s) /\ shutdown THEN "SKIPPED"
    ELSE IF ~has_final_state(s) THEN "TIMEOUT"
    ELSE s

\* _set_monitoring_complete inside the for loop of _finish_monitoring.
FinishLoopDone_first(i, n) == i > 1

\* The for loop of _finish_monitoring is exhausted.
FinishLoopDone(i, n) == i > n

\* One iteration of the for loop of _finish_monitoring.
FinishStep ==
    /\ pc = "finish"
    /\ ~FinishLoopDone(idx, Len(FunctionOrder(workflow)))
    /\ LET f == FunctionOrder(workflow)[idx]
           s == FinishStatus(status[f], shutdown_requested)
       IN  status' = IF s # status[f] THEN set_status(status, f, s) ELSE status
    /\ idx' = idx + 1
    /\ UNCHANGED <<others, config, invocations, prev_statuses, timer, flags, pc,
                   workflow_failed, exit_cause, tick_known, status_log, caller>>

\* The end of _finish_monitoring: _set_monitoring_complete; the thread ends.
FinishComplete ==
    /\ pc = "finish"
    /\ FinishLoopDone(idx, Len(FunctionOrder(workflow)))
    /\ monitoring_complete' = TRUE
    /\ pc' = "done"
    /\ idx' = 0
    /\ UNCHANGED <<others, config, functions, timer, shutdown_requested, workflow_failed,
                   exit_cause, tick_known, status_log, caller>>

\* --------------------------------------------- the functions themselves
\* An invoked function starts running.
FunctionRuns ==
    \E f \in DOMAIN status :
        /\ status[f] = "INVOKED"
        /\ status' = [status EXCEPT ![f] = "RUNNING"]
        /\ since_change' = 0
        /\ UNCHANGED <<others, config, invocations, prev_statuses,
                       seconds_since_last_change, since_reset, flags, monitor, caller>>

\* A running function completes; the functions it invoked become known.
FunctionCompletes ==
    \E f \in DOMAIN status :
        \E children \in SUBSET adj_graph(workflow)[extract_function_name(f)] :
            /\ status[f] = "RUNNING"
            /\ status' = [status EXCEPT ![f] = "COMPLETED"]
            /\ invocations' = [invocations EXCEPT ![f] = <<children>>]
            /\ since_change' = 0
            /\ UNCHANGED <<others, config, prev_statuses, seconds_since_last_change,
                           since_reset, flags, monitor, caller>>

\* A running function fails.
FunctionFails ==
    \E f \in DOMAIN status :
        /\ status[f] = "RUNNING"
        /\ status' = [status EXCEPT ![f] = "FAILED"]
        /\ since_change' = 0
        /\ UNCHANGED <<others, config, invocations, prev_statuses,
                       seconds_since_last_change, since_reset, flags, monitor, caller>>

\* ---------------------------------------------------------------- caller
\* shutdown() that reports the thread stopped whatever is_alive() says.
shutdown_returns_true(alive) == "True"
\* What shutdown() returns after the join, from is_alive().
shutdown_returns(alive) == IF alive THEN "False" ELSE "True"

\* A cleanup() that forces whatever shutdown() returned.
cleanup_forces_always(result) == TRUE
\* cleanup(): `if not self.shutdown()` goes on to force_shutdown().
cleanup_forces(result) == result = "False"

\* A force_shutdown() that only requests the shutdown.
force_shutdown_requests_only(alive, complete, requested) ==
    IF alive THEN <<complete, TRUE>> ELSE <<complete, requested>>
\* force_shutdown(): <<_monitoring_complete, _shutdown_requested>> after it.
force_shutdown(alive, complete, requested) ==
    IF alive THEN <<TRUE, TRUE>> ELSE <<complete, requested>>

\* A shutdown() that sets the request whether or not a thread is alive.
shutdown_requests_always(alive, requested) == TRUE
\* shutdown(): _shutdown_requested after it; it returns before
\* _set_shutdown_requested() when no thread is alive.
shutdown_requests(alive, requested) == IF alive THEN TRUE ELSE requested

\* shutdown() on a started runner, up to the join; with no thread alive it
\* returns True at once.
Shutdown ==
    /\ caller_pc = "idle"
    /\ pc # "init"
    /\ shutdown_requested' = shutdown_requests(is_alive, shutdown_requested)
    /\ IF is_alive
       THEN /\ caller_pc' = "shutdown_join"
            /\ returned' = "none"
       ELSE /\ returned' = "True"
            /\ UNCHANGED caller_pc
    /\ UNCHANGED <<others, config, functions, timer, monitoring_complete, monitor>>

\* shutdown() on a runner that was never started: _monitoring_thread is None.
ShutdownBeforeStart ==
    /\ caller_pc = "idle"
    /\ pc = "init"
    /\ shutdown_requested' = shutdown_requests(is_alive, shutdown_requested)
    /\ returned' = "True"
    /\ UNCHANGED <<others, config, functions, timer, monitoring_complete, monitor,
                   caller_pc>>

\* cleanup() on a started runner, up to the join of its shutdown().
Cleanup ==
    /\ caller_pc = "idle"
    /\ pc # "init"
    /\ IF is_alive
       THEN /\ shutdown_requested' = TRUE
            /\ caller_pc' = "cleanup_join"
            /\ returned' = "none"
       ELSE /\ returned' = "True"
            /\ caller_pc' = IF cleanup_forces(returned') THEN "cleanup_force" ELSE "idle"
            /\ UNCHANGED shutdown_requested
    /\ UNCHANGED <<others, config, functions, timer, monitoring_complete, monitor>>

\* join(timeout) returns because the thread has ended: shutdown returns True.
JoinEnds ==
    /\ caller_pc \in {"shutdown_join", "cleanup_join"}
    /\ ~is_alive
    /\ returned' = shutdown_returns(is_alive)
    /\ caller_pc' = IF caller_pc = "cleanup_join" /\ cleanup_forces(returned')
                    THEN "cleanup_force" ELSE "idle"
    /\ UNCHANGED <<others, config, functions, timer, flags, monitor>>

\* join(timeout) returns with the thread still alive: shutdown returns False,
\* and cleanup goes on to force_shutdown.
JoinTimesOut ==
    /\ caller_pc \in {"shutdown_join", "cleanup_join"}
    /\ is_alive
    /\ returned' = shutdown_returns(is_alive)
    /\ caller_pc' = IF caller_pc = "cleanup_join" /\ cleanup_forces(returned')
                    THEN "cleanup_force" ELSE "idle"
    /\ UNCHANGED <<others, config, functions, timer, flags, monitor>>

\* force_shutdown(), called directly or by cleanup.
ForceShutdown ==
    /\ caller_pc \in {"idle", "cleanup_force"}
    /\ LET after == force_shutdown(is_alive, monitoring_complete, shutdown_requested)
       IN  monitoring_complete' = after[1] /\ shutdown_requested' = after[2]
    /\ caller_pc' = "idle"
    /\ UNCHANGED <<others, config, functions, timer, monitor, returned>>

Next ==
    \/ Start
    \/ MonitorBegin
    \/ LoopCheck
    \/ TickStep
    \/ TickFault
    \/ TickEnd
    \/ CascadeStep
    \/ IncrementAndSleep
    \/ FinishStep
    \/ FinishComplete
    \/ FunctionRuns
    \/ FunctionCompletes
    \/ FunctionFails
    \/ Shutdown
    \/ Cleanup
    \/ JoinEnds
    \/ JoinTimesOut
    \/ ForceShutdown

Spec == Init /\ [][Next]_vars

\* The runner with the reads of function.status in a tick interleaved with
\* the instance's own status changes.
RacingNext ==
    \/ Next
    \/ TickStepRacing

RacingSpec == Init /\ [][RacingNext]_vars

\* The runner with a caller that may also call shutdown() before _start.
EarlyNext ==
    \/ Next
    \/ ShutdownBeforeStart

EarlySpec == Init /\ [][EarlyNext]_vars

\* The steps of trigger_workflow and of the monitor thread it starts.
MonitorStep ==
    \/ Start
    \/ MonitorBegin
    \/ LoopCheck
    \/ TickStep
    \/ TickEnd
    \/ CascadeStep
    \/ IncrementAndSleep
    \/ FinishStep
    \/ FinishComplete

\* The caller's calls and the steps of the functions.
Environment ==
    \/ FunctionRuns
    \/ FunctionCompletes
    \/ FunctionFails
    \/ Shutdown
    \/ Cleanup
    \/ JoinEnds
    \/ JoinTimesOut
    \/ ForceShutdown

\* The runs in which no store read raises and the monitor thread, a daemon
\* thread of the process, is scheduled as long as it has a step to take.
FairNext ==
    \/ MonitorStep
    \/ Environment

FairSpec == Init /\ [][FairNext]_vars /\ WF_vars(MonitorStep)

\* ------------------------------------------------- construction alone
\* __init__ and _build_functions applied to every payload over the nodes
\* a, b, c: any graph, any rank counts up to MaxRank.
BuildInit ==
    /\ LoggerNew
    /\ b_adj \in [Nodes -> SUBSET Nodes]
    /\ b_ranks \in [Nodes -> 0..MaxRank]
    /\ b_rev = <<>>
    /\ workflow = "drawn"
    /\ set_order = <<>>
    /\ Constructed

\* __init__: self.reverse_adj_graph = self._build_reverse_adjacency_graph().
BuildReverse ==
    /\ b_rev = <<>>
    /\ b_rev' = _build_reverse_adjacency_graph(workflow)
    /\ UNCHANGED <<b_adj, b_ranks, log_monitor, config, functions, timer, flags,
                   monitor, caller>>

BuildNext ==
    \/ BuildReverse
    \/ Start

BuildSpec == BuildInit /\ [][BuildNext]_vars

\* --------------------------------------------- construction and start
\* trigger_workflow in every environment: cls(...) then runner._start().
EnvInit ==
    /\ BuilderIdle
    /\ LoggerNew
    /\ StoreIdle
    /\ LocksFree
    /\ env \in [REQUIRED_ENV_VARS -> {"unset", "empty", "set"}]
    /\ workflow = "chain"
    /\ set_order \in SetOrders(workflow)
    /\ status = <<>>
    /\ invocations = <<>>
    /\ prev_statuses = <<>>
    /\ seconds_since_last_change = 0
    /\ since_reset = 0
    /\ since_change = 0
    /\ monitoring_complete = FALSE
    /\ shutdown_requested = FALSE
    /\ pc = "unconstructed"
    /\ idx = 0
    /\ workflow_failed = FALSE
    /\ exit_cause = "none"
    /\ tick_known = {}
    /\ status_log = <<>>
    /\ caller_pc = "idle"
    /\ returned = "none"

\* __init__: _validate_environment() comes first; when it raises, the
\* constructor is left and trigger_workflow never reaches _start.
Construct ==
    /\ pc = "unconstructed"
    /\ pc' = IF _validate_environment(env) # {} THEN "InitializationError" ELSE "init"
    /\ UNCHANGED <<others, config, functions, timer, flags, idx, workflow_failed,
                   exit_cause, tick_known, status_log, caller>>

\* The log monitor of a function instance is started; the instances are
\* built by _start.
FunctionLogStart ==
    /\ status # <<>>
    /\ log_pc = "new"
    /\ log_pc' = "loop"
    /\ UNCHANGED <<artifact, logs, logs_started, logs_complete, stop_requested,
                   callbacks, delivered, events, raised, new_logs, builder, config,
                   functions, timer, flags, monitor, caller>>

EnvNext ==
    \/ Construct
    \/ Start
    \/ MonitorBegin
    \/ FunctionLogStart

EnvSpec == EnvInit /\ [][EnvNext]_vars

\* ------------------------------------------------------------ S3 client
Keys == 1..MaxKeys
ClientErrorCodes == {"403", "500"}
OtherExceptions == {"EndpointConnectionError"}

\* What head_object and get_object of the boto3 client do for a key:
\* "ok", a ClientError with its error code, or another exception.
StoreResponse(present, fault) ==
    IF fault \in ClientErrorCodes THEN <<"ClientError", fault>>
    ELSE IF fault \in OtherExceptions THEN <<"Exception", fault>>
    ELSE IF present THEN <<"ok">>
    ELSE <<"ClientError", "404">>

\* object_exists that takes every ClientError for a missing or present object.
object_exists_swallows(response) ==
    IF response[1] = "ClientError"
    THEN IF response[2] = "404" THEN "False" ELSE "True"
    ELSE IF response[1] = "Exception" THEN response[2]
    ELSE "True"

\* object_exists that raises for every ClientError.
object_exists_raises_all(response) ==
    IF response[1] = "ClientError" THEN "S3ClientError"
    ELSE IF response[1] = "Exception" THEN response[2]
    ELSE "True"
\* object_exists: what it returns or raises for the response to head_object.
object_exists(response) ==
    IF response[1] = "ClientError"
    THEN IF response[2] = "404" THEN "False" ELSE "S3ClientError"
    ELSE IF response[1] = "Exception" THEN response[2]
    ELSE "True"

\* get_object: the content, or S3ClientError for every failure.
get_object(response) ==
    IF response[1] = "ClientError" THEN "S3ClientError"
    ELSE IF response[1] = "Exception" THEN "S3ClientError"
    ELSE "content"

StoreInit ==
    /\ BuilderIdle
    /\ LoggerNew
    /\ workflow = "chain"
    /\ set_order = <<>>
    /\ Constructed

\* An object is put under a key.
StorePut ==
    /\ \E k \in Keys \ store : store' = store \cup {k}
    /\ UNCHANGED <<s3_fault, s3_result, env, workflow, set_order, locks, others,
                   functions, timer, flags, monitor, caller>>

\* An object is deleted.
StoreDelete ==
    /\ \E k \in store : store' = store \ {k}
    /\ UNCHANGED <<s3_fault, s3_result, env, workflow, set_order, locks, others,
                   functions, timer, flags, monitor, caller>>

\* The store begins to fail, or recovers.
StoreFault ==
    /\ \E f \in ({"none"} \cup ClientErrorCodes \cup OtherExceptions) \ {s3_fault} :
          s3_fault' = f
    /\ UNCHANGED <<store, s3_result, env, workflow, set_order, locks, others,
                   functions, timer, flags, monitor, caller>>

\* A call of object_exists(key).
ObjectExists ==
    /\ \E k \in Keys :
          s3_result' = [op |-> "object_exists", key |-> k, present |-> k \in store,
                        fault |-> s3_fault,
                        result |-> object_exists(StoreResponse(k \in store, s3_fault))]
    /\ UNCHANGED <<store, s3_fault, env, workflow, set_order, locks, others,
                   functions, timer, flags, monitor, caller>>

\* A call of get_object(key).
GetObject ==
    /\ \E k \in Keys :
          s3_result' = [op |-> "get_object", key |-> k, present |-> k \in store,
                        fault |-> s3_fault,
                        result |-> get_object(StoreResponse(k \in store, s3_fault))]
    /\ UNCHANGED <<store, s3_fault, env, workflow, set_order, locks, others,
                   functions, timer, flags, monitor, caller>>

StoreNext ==
    \/ StorePut
    \/ StoreDelete
    \/ StoreFault
    \/ ObjectExists
    \/ GetObject

StoreSpec == StoreInit /\ [][StoreNext]_vars

\* ------------------------------------------------------ function logger
runner == <<config, functions, timer, flags, monitor, caller>>

RECURSIVE lstrip(_)
lstrip(t) == IF t # <<>> /\ Head(t) = 0 THEN lstrip(Tail(t)) ELSE t
RECURSIVE rstrip(_)
rstrip(t) ==
    IF t # <<>> /\ t[Len(t)] = 0 THEN rstrip(SubSeq(t, 1, Len(t) - 1)) ELSE t
\* str.strip() of the text: the blank lines and the newline at its ends go.
strip(t) == rstrip(lstrip(t))
\* str.split("\n"): the empty text splits into one empty line.
split(t) == IF t = <<>> THEN <<0>> ELSE t

\* _check_for_logs: s3_client.object_exists(logs_key).
_check_for_logs(art) == art # <<>>
\* _get_logs: s3_client.get_object(logs_key).strip().split("\n").
_get_logs(art) == split(strip(art[1]))

\* A while condition that does not look at logs_complete.
_run_continues_always(complete) == TRUE
\* The while condition of _run.
_run_continues(complete) == ~complete

\* A completion test that does not look at new_logs.
_logs_are_complete_on_stop(stop, new) == stop
\* The completion test at the end of a poll.
_logs_are_complete(stop, new) == stop /\ new = <<>>

\* _call_callbacks without the try: the first callback that raises ends it.
_call_callbacks_unguarded(cbs, event, raising) ==
    LET r == {i \in 1..Len(cbs) : cbs[i] \in raising}
        n == IF r = {} THEN Len(cbs) ELSE CHOOSE i \in r : \A j \in r : i <= j
    IN  [i \in 1..n |-> <<cbs[i], event>>]
\* _call_callbacks: the calls made for one event when the callbacks of
\* `raising` raise an Exception.
_call_callbacks(cbs, event, raising) == [i \in 1..Len(cbs) |-> <<cbs[i], event>>]

\* What a put of the function changes the artifact to: it is created, empty
\* or with a first line, or grows by one line.
Written(art) ==
    IF art = <<>> THEN {<<>>, <<0>>, <<1>>}
    ELSE {Append(art[1], l) : l \in {0, Len(art[1]) + 1}}

LogInit ==
    /\ BuilderIdle
    /\ LoggerNew
    /\ workflow = "chain"
    /\ set_order = <<>>
    /\ Constructed

\* start().
LogStart ==
    /\ log_pc = "new"
    /\ log_pc' = "loop"
    /\ UNCHANGED <<artifact, logs, logs_started, logs_complete, stop_requested,
                   callbacks, delivered, events, raised, new_logs, builder, runner>>

\* register_callback(callback).
RegisterCallback ==
    /\ \E c \in (1..MaxCallbacks) \ Range(callbacks) :
          callbacks' = Append(callbacks, c)
    /\ UNCHANGED <<artifact, logs, logs_started, logs_complete, stop_requested,
                   delivered, events, raised, new_logs, log_pc, builder, runner>>

\* The function writes its log.
ArtifactWritten ==
    /\ IF artifact = <<>> THEN TRUE ELSE Len(artifact[1]) < MaxLines
    /\ \E t \in Written(artifact) : artifact' = <<t>>
    /\ UNCHANGED <<logs, logs_started, logs_complete, stop_requested, callbacks,
                   delivered, events, raised, new_logs, log_pc, builder, runner>>

\* stop().
LogStop ==
    /\ ~stop_requested
    /\ stop_requested' = TRUE
    /\ UNCHANGED <<artifact, logs, logs_started, logs_complete, callbacks,
                   delivered, events, raised, new_logs, log_pc, builder, runner>>

\* One pass of the while loop of _run up to the completion test.
LogPoll ==
    /\ log_pc = "loop"
    /\ _run_continues(logs_complete)
    /\ \E raising \in SUBSET Range(callbacks) :
          IF ~logs_started
          THEN /\ IF _check_for_logs(artifact)
                  THEN /\ logs_started' = TRUE
                       /\ delivered' = delivered \o
                              _call_callbacks(callbacks, "LOG_CREATED", raising)
                       /\ events' = Append(events, "LOG_CREATED")
                       /\ raised' = raised \cup raising
                  ELSE UNCHANGED <<logs_started, delivered, events, raised>>
               /\ UNCHANGED <<logs, new_logs, log_pc>>
          ELSE LET log_content == _get_logs(artifact)
                   num_existing_logs == Len(logs)
                   new == SubSeq(log_content, num_existing_logs + 1, Len(log_content))
               IN  /\ new_logs' = new
                   /\ IF new # <<>>
                      THEN /\ logs' = logs \o new
                           /\ delivered' = delivered \o
                                  _call_callbacks(callbacks, "LOG_UPDATED", raising)
                           /\ events' = Append(events, "LOG_UPDATED")
                           /\ raised' = raised \cup raising
                      ELSE UNCHANGED <<logs, delivered, events, raised>>
                   /\ log_pc' = "check"
                   /\ UNCHANGED logs_started
    /\ UNCHANGED <<artifact, logs_complete, stop_requested, callbacks, builder, runner>>

\* The completion test that ends a poll, then time.sleep(interval_seconds).
LogCheck ==
    /\ log_pc = "check"
    /\ \E raising \in SUBSET Range(callbacks) :
          IF _logs_are_complete(stop_requested, new_logs)
          THEN /\ logs_complete' = TRUE
               /\ delivered' = delivered \o
                      _call_callbacks(callbacks, "LOG_COMPLETE", raising)
               /\ events' = Append(events, "LOG_COMPLETE")
               /\ raised' = raised \cup raising
          ELSE UNCHANGED <<logs_complete, delivered, events, raised>>
    /\ new_logs' = <<>>
    /\ log_pc' = "loop"
    /\ UNCHANGED <<artifact, logs, logs_started, stop_requested, callbacks,
                   builder, runner>>

\* The while condition of _run is false: the thread ends.
LogEnds ==
    /\ log_pc = "loop"
    /\ ~_run_continues(logs_complete)
    /\ log_pc' = "ended"
    /\ UNCHANGED <<artifact, logs, logs_started, logs_complete, stop_requested,
                   callbacks, delivered, events, raised, new_logs, builder, runner>>

LogNext ==
    \/ LogStart
    \/ RegisterCallback
    \/ ArtifactWritten
    \/ LogStop
    \/ LogPoll
    \/ LogCheck
    \/ LogEnds

LogSpec == LogInit /\ [][LogNext]_vars

\* The store calls of the logger give their result, or raise.
Raises(outcome) == outcome \notin {"True", "False", "content"}

\* One pass of the while loop of _run while the store is failing: the call of
\* object_exists (logs not started) or of get_object (logs started) gets a
\* ClientError other than 404 or another exception. _run has no try: what
\* the call raises ends the thread.
LogPollFails ==
    /\ log_pc = "loop"
    /\ _run_continues(logs_complete)
    /\ \E fault \in ClientErrorCodes \cup OtherExceptions :
       \E outcome \in {IF logs_started
                        THEN get_object(StoreResponse(artifact # <<>>, fault))
                        ELSE object_exists(StoreResponse(artifact # <<>>, fault))} :
          IF Raises(outcome)
          THEN /\ log_pc' = "faulted"
               /\ UNCHANGED <<logs_started, delivered, events>>
          ELSE IF outcome = "True"
          THEN /\ logs_started' = TRUE
               /\ delivered' = delivered \o _call_callbacks(callbacks, "LOG_CREATED", {})
               /\ events' = Append(events, "LOG_CREATED")
               /\ UNCHANGED log_pc
          ELSE UNCHANGED <<logs_started, delivered, events, log_pc>>
    /\ UNCHANGED <<artifact, logs, logs_complete, stop_requested, callbacks, raised,
                   new_logs, builder, runner>>

\* The logger polling a store that may fail.
FaultyLogNext ==
    \/ LogNext
    \/ LogPollFails

FaultyLogSpec == LogInit /\ [][FaultyLogNext]_vars

\* The steps of the logger thread (target of the Thread made by start()).
LogThreadStep ==
    \/ LogPoll
    \/ LogCheck
    \/ LogEnds

\* The logger with its thread scheduled: the thread is a live daemon thread
\* that sleeps interval_seconds between polls and so always runs again.
FairLogSpec == LogInit /\ [][LogNext]_vars /\ WF_vars(LogThreadStep)

\* The events of LogEvent.
LogEvents == {"LOG_CREATED", "LOG_UPDATED", "LOG_COMPLETE"}

\* ----------------------------------------------------------------- locks
\* The two worker threads and a caller, step by step through their `with`
\* blocks, store calls and sleeps. log_pc, pc and caller_pc name the getter,
\* setter, store call or sleep a thread is at; a thread at a `with` block is
\* inside it when it holds the lock, and waits before it otherwise.

\* What no step below changes.
parked == <<builder, env, workflow, set_order, s3, functions, timer, idx,
            workflow_failed, exit_cause, tick_known, status_log, returned,
            artifact, logs, callbacks, delivered, events, raised>>

\* The getters and setters _run goes through, with the two store calls
\* put inside a `with self._lock` block as well.
LoggerSections_with_store_calls ==
    {"logs_complete", "logs_started", "_set_logs_started", "logs", "_update_logs",
     "stop_requested", "_set_logs_complete", "_check_for_logs", "_get_logs"}
\* The getters and setters _run goes through: each is one `with self._lock`
\* block.
LoggerSections ==
    {"logs_complete", "logs_started", "_set_logs_started", "logs", "_update_logs",
     "stop_requested", "_set_logs_complete"}
\* The store calls of _run.
LoggerStoreCalls == {"_check_for_logs", "_get_logs"}

\* Where _run goes on after a getter or setter.
AfterLoggerSection(p, complete, started, stop, new) ==
    IF p = "logs_complete"
    THEN IF _run_continues(complete) THEN "logs_started" ELSE "ended"
    ELSE IF p = "logs_started"
    THEN IF started THEN "_get_logs" ELSE "_check_for_logs"
    ELSE IF p = "_set_logs_started" THEN "LOG_CREATED"
    ELSE IF p = "logs"
    THEN IF new # <<>> THEN "_update_logs" ELSE "stop_requested"
    ELSE IF p = "_update_logs" THEN "LOG_UPDATED"
    ELSE IF p = "stop_requested"
    THEN IF _logs_are_complete(stop, new) THEN "_set_logs_complete" ELSE "sleep"
    ELSE IF p = "_set_logs_complete" THEN "LOG_COMPLETE"
    ELSE "sleep"

LockInit ==
    /\ BuilderIdle
    /\ LoggerNew
    /\ workflow = "chain"
    /\ set_order = <<>>
    /\ Constructed

\* start() of the logger: the thread enters the while loop of _run.
LoggerThreadStarts ==
    /\ log_pc = "new"
    /\ log_pc' = "logs_complete"
    /\ UNCHANGED <<parked, locks, pc, caller_pc, logs_started, logs_complete,
                   stop_requested, new_logs, flags>>

\* The logger thread enters a `with self._lock` block.
LoggerEnters ==
    /\ log_pc \in LoggerSections
    /\ _lock = "free"
    /\ _lock' = "logger"
    /\ UNCHANGED <<parked, _status_lock, log_pc, pc, caller_pc, logs_started,
                   logs_complete, stop_requested, new_logs, flags>>

\* The logger thread does what the block is for and leaves it.
LoggerLeaves ==
    /\ log_pc \in LoggerSections
    /\ _lock = "logger"
    /\ _lock' = "free"
    /\ logs_started' = (logs_started \/ log_pc = "_set_logs_started")
    /\ logs_complete' = (logs_complete \/ log_pc = "_set_logs_complete")
    /\ log_pc' = AfterLoggerSection(log_pc, logs_complete, logs_started,
                                    stop_requested, new_logs)
    /\ UNCHANGED <<parked, _status_lock, pc, caller_pc, stop_requested, new_logs,
                   flags>>

\* A store call of the logger thread returns: object_exists with whether
\* the log is there, get_object with new lines or without.
LoggerStoreCallReturns ==
    /\ log_pc \in LoggerStoreCalls
    /\ IF log_pc = "_check_for_logs"
       THEN /\ \E found \in BOOLEAN :
                  log_pc' = IF found THEN "_set_logs_started" ELSE "sleep"
            /\ UNCHANGED new_logs
       ELSE /\ \E new \in {<<>>, <<1>>} : new_logs' = new
            /\ log_pc' = "logs"
    /\ UNCHANGED <<parked, locks, pc, caller_pc, logs_started, logs_complete,
                   stop_requested, flags>>

\* _call_callbacks(event): no lock is taken.
LoggerCallsCallbacks ==
    /\ log_pc \in LogEvents
    /\ log_pc' = IF log_pc = "LOG_UPDATED" THEN "stop_requested" ELSE "sleep"
    /\ UNCHANGED <<parked, locks, pc, caller_pc, logs_started, logs_complete,
                   stop_requested, new_logs, flags>>

\* time.sleep(interval_seconds) of _run returns.
LoggerSleeps ==
    /\ log_pc = "sleep"
    /\ log_pc' = "logs_complete"
    /\ new_logs' = <<>>
    /\ UNCHANGED <<parked, locks, pc, caller_pc, logs_started, logs_complete,
                   stop_requested, flags>>

\* The `with self._status_lock` blocks the monitor thread goes through: the
\* shutdown_requested getter in the while condition and in the for loop of
\* _finish_monitoring, and _set_monitoring_complete.
MonitorSections ==
    {"shutdown_requested", "_finish_monitoring", "_set_monitoring_complete"}
\* The monitor thread is in a tick, whose reads of the instances call the
\* store, or in time.sleep(check_interval).
MonitorBlocked == pc \in {"_monitor_workflow_execution", "sleep"}

\* _start: the monitor thread enters the while loop of _start_monitoring.
MonitorThreadStarts ==
    /\ pc = "init"
    /\ pc' = "_did_timeout"
    /\ UNCHANGED <<parked, locks, log_pc, caller_pc, logs_started, logs_complete,
                   stop_requested, new_logs, flags>>

\* `not self._did_timeout()` in the while condition: no lock is taken.
MonitorChecksTimer ==
    /\ pc = "_did_timeout"
    /\ \E timed_out \in BOOLEAN :
          pc' = IF timed_out THEN "_finish_monitoring" ELSE "shutdown_requested"
    /\ UNCHANGED <<parked, locks, log_pc, caller_pc, logs_started, logs_complete,
                   stop_requested, new_logs, flags>>

\* The monitor thread enters a `with self._status_lock` block.
MonitorEnters ==
    /\ pc \in MonitorSections
    /\ _status_lock = "free"
    /\ _status_lock' = "monitor"
    /\ UNCHANGED <<parked, _lock, log_pc, pc, caller_pc, logs_started,
                   logs_complete, stop_requested, new_logs, flags>>

\* The monitor thread does what the block is for and leaves it. In
\* _finish_monitoring the getter is read once for every instance that is
\* not final.
MonitorLeaves ==
    /\ pc \in MonitorSections
    /\ _status_lock = "monitor"
    /\ _status_lock' = "free"
    /\ monitoring_complete' = (monitoring_complete \/ pc = "_set_monitoring_complete")
    /\ IF pc = "shutdown_requested"
       THEN pc' = IF shutdown_requested THEN "_finish_monitoring"
                  ELSE "_monitor_workflow_execution"
       ELSE IF pc = "_finish_monitoring"
       THEN pc' \in {"_finish_monitoring", "_set_monitoring_complete"}
       ELSE pc' = "done"
    /\ UNCHANGED <<parked, _lock, log_pc, caller_pc, logs_started, logs_complete,
                   stop_requested, new_logs, shutdown_requested>>

\* _monitor_workflow_execution returns, or raises StopMonitoring.
MonitorTickReturns ==
    /\ pc = "_monitor_workflow_execution"
    /\ \E stop \in BOOLEAN : pc' = IF stop THEN "_finish_monitoring" ELSE "sleep"
    /\ UNCHANGED <<parked, locks, log_pc, caller_pc, logs_started, logs_complete,
                   stop_requested, new_logs, flags>>

\* time.sleep(check_interval) of _start_monitoring returns.
MonitorSleeps ==
    /\ pc = "sleep"
    /\ pc' = "_did_timeout"
    /\ UNCHANGED <<parked, locks, log_pc, caller_pc, logs_started, logs_complete,
                   stop_requested, new_logs, flags>>

\* What a caller does under the logger's lock, and under the runner's.
CallerLoggerSections == {"stop", "logs_content", "register_callback"}
CallerRunnerSections ==
    {"get_function_statuses", "monitoring_complete", "_set_shutdown_requested"}

\* The caller calls one of them.
CallerCalls ==
    /\ caller_pc = "idle"
    /\ caller_pc' \in CallerLoggerSections \cup CallerRunnerSections
    /\ UNCHANGED <<parked, locks, log_pc, pc, logs_started, logs_complete,
                   stop_requested, new_logs, flags>>

\* The caller enters the `with` block of the call.
CallerEnters ==
    /\ IF caller_pc \in CallerLoggerSections
       THEN _lock = "free" /\ _lock' = "caller" /\ UNCHANGED _status_lock
       ELSE /\ caller_pc \in CallerRunnerSections
            /\ _status_lock = "free" /\ _status_lock' = "caller" /\ UNCHANGED _lock
    /\ UNCHANGED <<parked, log_pc, pc, caller_pc, logs_started, logs_complete,
                   stop_requested, new_logs, flags>>

\* The caller does what the block is for, leaves it and returns.
CallerLeaves ==
    /\ IF caller_pc \in CallerLoggerSections
       THEN _lock = "caller" /\ _lock' = "free" /\ UNCHANGED _status_lock
       ELSE /\ caller_pc \in CallerRunnerSections
            /\ _status_lock = "caller" /\ _status_lock' = "free" /\ UNCHANGED _lock
    /\ stop_requested' = (stop_requested \/ caller_pc = "stop")
    /\ shutdown_requested' =
          (shutdown_requested \/ caller_pc = "_set_shutdown_requested")
    /\ caller_pc' = "idle"
    /\ UNCHANGED <<parked, log_pc, pc, logs_started, logs_complete, new_logs,
                   monitoring_complete>>

LockNext ==
    \/ LoggerThreadStarts
    \/ LoggerEnters
    \/ LoggerLeaves
    \/ LoggerStoreCallReturns
    \/ LoggerCallsCallbacks
    \/ LoggerSleeps
    \/ MonitorThreadStarts
    \/ MonitorChecksTimer
    \/ MonitorEnters
    \/ MonitorLeaves
    \/ MonitorTickReturns
    \/ MonitorSleeps
    \/ CallerCalls
    \/ CallerEnters
    \/ CallerLeaves

LockSpec == LockInit /\ [][LockNext]_vars

\* ================================================================ claims
Final == {"COMPLETED", "FAILED", "NOT_INVOKED", "SKIPPED", "TIMEOUT"}
reverse_adj_graph == _build_reverse_adjacency_graph(workflow)
Base(f) == extract_function_name(f)
\* The monitor thread takes a step.
MonitorMoves == pc' # pc \/ idx' # idx

C2_Cascade ==
    (workflow_failed /\ pc \in {"finish", "done", "crashed"}) =>
        /\ pc # "crashed"
        /\ \E g \in DOMAIN status :
              /\ status[g] = "FAILED"
              /\ \A f \in DOMAIN status \ {g} :
                    status[f] \in {"COMPLETED", "NOT_INVOKED", "SKIPPED"}
        /\ pc = "done" => monitoring_complete

\* The invoker instances of f, in every order in which the invokers and the
\* ranks of each invoker can be examined.
Reorderings(q) ==
    {[i \in 1..Len(q) |-> q[p[i]]] : p \in IterOrders(1..Len(q))}
RankOrders(n) ==
    {ro \in [reverse_adj_graph[n] ->
                UNION {Reorderings(_iter_ranks(workflow, u)) : u \in reverse_adj_graph[n]}] :
        \A u \in reverse_adj_graph[n] : ro[u] \in Reorderings(_iter_ranks(workflow, u))}
InvokerOrders(f) ==
    {Chain([i \in 1..Len(o) |-> ro[o[i]]]) :
        o \in IterOrders(reverse_adj_graph[Base(f)]), ro \in RankOrders(Base(f))}
InvokerSet(f) == Range(InvokerInstances(workflow, set_order[Base(f)]))
Invoked(f, i) == Known(invocations, i) /\ Base(f) \in invocations[i][1]

\* C3. Multi-parent merge: for a PENDING instance with several invokers, all
\* of them completed and at least one of them having invoked it, the
\* resolver returns INVOKED whichever invoker is examined first.
C3_MultiParentMerge ==
    \A f \in DOMAIN status :
        (/\ pending(status[f])
         /\ Cardinality(reverse_adj_graph[Base(f)]) > 1
         /\ \A i \in InvokerSet(f) : Known(invocations, i)
         /\ \E i \in InvokerSet(f) : Invoked(f, i))
        => \A o \in IterOrders(reverse_adj_graph[Base(f)]) :
              _check_invocation_status(workflow, o, invocations, f) = "INVOKED"

\* C5. The resolver returns NOT_INVOKED for a PENDING instance only if every
\* rank of every invoker has completed and none of them invoked it; with an
\* invoker rank still unknown and no invoker having invoked it, the result
\* is PENDING.
C5_NotInvokedNeedsAllKnown ==
    \A f \in DOMAIN status :
        pending(status[f]) =>
            LET r == _check_invocation_status(
                         workflow, set_order[Base(f)], invocations, f)
            IN  /\ r = "NOT_INVOKED" =>
                      \A i \in InvokerSet(f) :
                          Known(invocations, i) /\ ~Invoked(f, i)
                /\ (/\ \E i \in InvokerSet(f) : ~Known(invocations, i)
                    /\ \A i \in InvokerSet(f) : ~Invoked(f, i))
                   => r = "PENDING"

\* C6. For fixed completion and invocation data the resolver's result for an
\* instance is the same for every ordering of its invokers and of their ranks.
C6_OrderInvariant ==
    \A f \in DOMAIN status :
        pending(status[f]) =>
            \A o1, o2 \in InvokerOrders(f) :
                FirstStatus(o1, invocations, f) = FirstStatus(o2, invocations, f)

\* The instance has one invoker, of a single rank.
SingleInvoker(f) ==
    /\ Cardinality(reverse_adj_graph[Base(f)]) = 1
    /\ \A u \in reverse_adj_graph[Base(f)] : ranks(workflow)[u] <= 1
InvokerOf(f) == CHOOSE i \in InvokerSet(f) : TRUE

\* C4. Resolver on a single-rank chain A -> B: the tick that examines a
\* PENDING B sets it INVOKED if A has completed and invoked B, NOT_INVOKED
\* if A has completed without invoking B, and leaves it PENDING while A's
\* invocations are unknown; and B does not stay PENDING through a tick that
\* began with A's completion visible.
C4_Examined ==
    \A f \in DOMAIN status :
        (/\ pc = "tick"
         /\ MonitorMoves
         /\ FunctionOrder(workflow)[idx] = f
         /\ pending(status[f])
         /\ SingleInvoker(f)
         /\ pc' # "faulted")
        => status'[f] =
              IF ~Known(invocations, InvokerOf(f)) THEN "PENDING"
              ELSE IF Invoked(f, InvokerOf(f)) THEN "INVOKED"
              ELSE "NOT_INVOKED"
C4_WithinTick ==
    \A f \in DOMAIN status :
        (/\ pc = "tick_end"
         /\ workflow = "chain" \/ ~workflow_failed
         /\ SingleInvoker(f)
         /\ InvokerOf(f) \in tick_known)
        => ~pending(status[f])
C4_ResolverChain == []C4_WithinTick /\ [][C4_Examined]_vars

\* A tick on the chain that began with a completed and b invoked by it has
\* left b INVOKED, and c, whose invoker b has not completed, PENDING.
C4_Witness ==
    /\ workflow = "chain"
    /\ pc = "tick_end"
    /\ <<"a", 0>> \in tick_known
    /\ status[<<"b", 0>>] = "INVOKED"
    /\ prev_statuses[<<"b", 0>>] = "INVOKED"
    /\ status[<<"c", 0>>] = "PENDING"

TimedOut == exit_cause \in {"timeout", "timeout_after_change"}

C7_LoopLeft ==
    /\ (pc = "loop_head" /\ since_change >= Timeout + CheckInterval)
           => _did_timeout(seconds_since_last_change)
    /\ pc = "done" => \A f \in DOMAIN status : status[f] \in Final
    /\ (pc = "done" /\ TimedOut /\ ~shutdown_requested)
           => \A f \in DOMAIN status : status[f] # "SKIPPED"
C7_Step ==
    /\ (pc = "loop_head" /\ _did_timeout(seconds_since_last_change) /\ MonitorMoves)
           => pc' = "finish"
    /\ (pc = "finish" /\ TimedOut /\ MonitorMoves /\ pc' = "finish") =>
           LET f == FunctionOrder(workflow)[idx]
           IN  status[f] \notin Final =>
                   status'[f] = IF shutdown_requested THEN "SKIPPED" ELSE "TIMEOUT"
C8_Shutdown ==
    (caller_pc = "shutdown_join" /\ ~is_alive /\ pc # "faulted") =>
        /\ monitoring_complete
        /\ \A f \in DOMAIN status : status[f] \in Final

\* C9 as stated. Once monitoring_complete is true it stays true and no
\* instance status changes any more.
C9_LatchAsStated ==
    [][monitoring_complete => (monitoring_complete' /\ status' = status)]_vars

\* C9 amended. Once monitoring_complete is true it stays true, and once
\* finalization has set it (the monitor thread has ended) no instance status
\* changes any more.
C9_Latch ==
    [][/\ monitoring_complete => monitoring_complete'
       /\ pc = "done" => (pc' = "done" /\ status' = status)]_vars

\* Finalization has changed statuses and then set the flag.
C9_Witness ==
    /\ pc = "done"
    /\ monitoring_complete
    /\ \E f \in DOMAIN status : status[f] \in {"SKIPPED", "TIMEOUT"}
    /\ \E f \in DOMAIN status : status[f] = "COMPLETED"

\* C10. The inactivity timer is reset by every status change, so the loop
\* is left by timeout only after Timeout seconds without any status change.
C10_TimeoutOnlyWhenIdle ==
    (pc = "loop_head" /\ _did_timeout(seconds_since_last_change))
        => since_change >= Timeout

\* C11. The loop is left through the success path exactly when the check
\* that ends a tick finds every instance COMPLETED or NOT_INVOKED, never
\* while an instance is FAILED, PENDING, INVOKED or RUNNING, and after that
\* exit finalization changes no instance status.
C11_AllDone ==
    exit_cause = "completed" =>
        \A f \in DOMAIN status : status[f] \in {"COMPLETED", "NOT_INVOKED"}
C11_Step ==
    /\ (pc = "tick_end" /\ MonitorMoves) =>
          ((exit_cause' = "completed" /\ pc' = "finish")
              <=> \A f \in DOMAIN status : status[f] \in {"COMPLETED", "NOT_INVOKED"})
    /\ exit_cause = "completed" => status' = status
C11_SuccessExit == []C11_AllDone /\ [][C11_Step]_vars

\* The success path was taken with one instance completed and another not
\* invoked, and finalization has run.
C11_Witness ==
    /\ pc = "done"
    /\ exit_cause = "completed"
    /\ \E f \in DOMAIN status : status[f] = "COMPLETED"
    /\ \E f \in DOMAIN status : status[f] = "NOT_INVOKED"

C12_EntryNotPending ==
    \A f \in DOMAIN status :
        Base(f) = workflow_invoke(workflow) => ~pending(status[f])
C12_Step ==
    /\ pc = "init" =>
          \A f \in DOMAIN status' :
              status'[f] = IF Base(f) = workflow_invoke(workflow)
                           THEN "INVOKED" ELSE "PENDING"
    /\ \A f \in DOMAIN status :
          (/\ pc = "tick"
           /\ MonitorMoves
           /\ FunctionOrder(workflow)[idx] = f
           /\ pending(status[f])
           /\ reverse_adj_graph[Base(f)] = {}
           /\ pc' # "faulted")
          => status'[f] = "NOT_INVOKED"
C14_Expansion ==
    pc = "reset" =>
        /\ \A n \in DOMAIN ranks(workflow) :
              LET q == _iter_ranks(workflow, n)
                  R == ranks(workflow)[n]
              IN  /\ Len(q) = IF R <= 1 THEN 1 ELSE R
                  /\ \A i \in 1..Len(q) : q[i] = <<n, IF R <= 1 THEN 0 ELSE i>>
        /\ DOMAIN status =
              {<<n, 0>> : n \in {m \in DOMAIN ranks(workflow) : ranks(workflow)[m] <= 1}}
              \cup {x \in (DOMAIN ranks(workflow)) \X (1..MaxRank) :
                        ranks(workflow)[x[1]] > 1 /\ x[2] <= ranks(workflow)[x[1]]}
        /\ Len(FunctionOrder(workflow)) = Cardinality(DOMAIN status)

\* The table was built for rank counts 2, 1 and 0.
C14_Witness ==
    /\ pc = "reset"
    /\ workflow = "drawn"
    /\ b_ranks["a"] = MaxRank
    /\ b_ranks["b"] = 1
    /\ b_ranks["c"] = 0
    /\ FunctionOrder(workflow)[MaxRank] = <<"a", MaxRank>>
    /\ Cardinality(DOMAIN status) = MaxRank + 2

IsPrefix(a, b) == Len(a) <= Len(b) /\ SubSeq(b, 1, Len(a)) = a
IsSuffix(a, b) == Len(a) <= Len(b) /\ SubSeq(b, Len(b) - Len(a) + 1, Len(b)) = a
\* The events delivered to callback c, in order.
DeliveredTo(c) ==
    LET d == SelectSeq(delivered, LAMBDA x : x[1] = c)
    IN  [i \in 1..Len(d) |-> d[i][2]]

\* C15. Log event ordering: the events form the sequence LOG_CREATED (once,
\* in the first poll that sees the artifact), one LOG_UPDATED per poll that
\* found new lines, LOG_COMPLETE (at most once, last); nothing precedes
\* LOG_CREATED, nothing follows LOG_COMPLETE, and a callback receives the
\* events fired since it was registered.
C15_Shape ==
    /\ \A i \in 1..Len(events) : events[i] = "LOG_CREATED" <=> i = 1
    /\ \A i \in 1..Len(events) : events[i] = "LOG_COMPLETE" => i = Len(events)
    /\ logs_started <=> events # <<>>
    /\ \A c \in Range(callbacks) : IsSuffix(DeliveredTo(c), events)
C15_Step ==
    /\ (log_pc = "loop" /\ log_pc' = "loop" /\ ~logs_started /\ events' # events)
          => artifact # <<>> /\ events' = Append(events, "LOG_CREATED")
    /\ (log_pc = "loop" /\ log_pc' = "check")
          => events' = IF logs' # logs THEN Append(events, "LOG_UPDATED") ELSE events
    /\ (log_pc = "check" /\ log_pc' = "loop")
          => events' \in {events, Append(events, "LOG_COMPLETE")}
    /\ log_pc = "ended" => events' = events
C15_EventOrder == []C15_Shape /\ [][C15_Step]_vars

\* The artifact appeared with one line and grew by two; a callback
\* registered before start() received the four events.
C15_Witness ==
    /\ log_pc = "ended"
    /\ logs = <<1, 2, 3>>
    /\ events = <<"LOG_CREATED", "LOG_UPDATED", "LOG_UPDATED", "LOG_COMPLETE">>
    /\ callbacks # <<>>
    /\ DeliveredTo(callbacks[1]) = events

\* C16. LOG_COMPLETE fires only in a poll in which the stop signal is set
\* and the read found no new lines: never in a poll that appended lines and
\* never while the stop signal is unset.
C16_Step ==
    (events' # events /\ events'[Len(events')] = "LOG_COMPLETE")
        => /\ stop_requested
           /\ new_logs = <<>>
           /\ logs' = logs
           /\ log_pc = "check"
C16_CompleteOnlyWhenStoppedAndIdle ==
    [](logs_complete => stop_requested) /\ [][C16_Step]_vars

\* The logger completed after polls that appended lines while the stop
\* signal was already set.
C16_Witness ==
    /\ logs_complete
    /\ stop_requested
    /\ events = <<"LOG_CREATED", "LOG_UPDATED", "LOG_COMPLETE">>
    /\ logs = <<1, 2>>
    /\ Len(artifact[1]) = MaxLines

\* C17. The buffer is append-only and each poll appends exactly the lines
\* of the read artifact beyond the buffered line count, so the buffer is at
\* all times the first lines of the artifact, none reordered or duplicated.
C17_BufferIsPrefix ==
    IsPrefix(logs, IF artifact = <<>> THEN <<>> ELSE artifact[1])

\* C18. The callbacks are called for each event in registration order, and
\* a callback that raises neither keeps the remaining callbacks from being
\* called for that event nor stops the poll loop nor changes the buffer or
\* the started and complete flags.
C18_Step ==
    (delivered' # delivered \/ events' # events) =>
        \E e \in LogEvents :
            /\ events' = Append(events, e)
            /\ delivered' = delivered \o [i \in 1..Len(callbacks) |-> <<callbacks[i], e>>]
            /\ log_pc' # "ended"
            /\ IsPrefix(logs, logs')
            /\ logs_started' /\ (logs_complete' <=> e = "LOG_COMPLETE")
C18_Callbacks == [][C18_Step]_vars

\* Callback 2 was registered before callback 1 and has raised; both were
\* called for the two events, 2 first.
C18_Witness ==
    /\ callbacks = <<2, 1>>
    /\ 2 \in raised
    /\ delivered = << <<2, "LOG_CREATED">>, <<1, "LOG_CREATED">>,
                      <<2, "LOG_UPDATED">>, <<1, "LOG_UPDATED">> >>

\* C19. A store failure other than not-found raised during a tick does not
\* end the monitor loop: the thread goes on to the next tick and ends only
\* through finalization.
C19_FaultSurvived == pc # "faulted"

Joins == {"shutdown_join", "cleanup_join"}
\* A call of shutdown() returns in this step.
ShutdownReturns == returned' # returned /\ returned' # "none"

\* C20 as stated. shutdown(timeout) sets shutdown_requested, waits for the
\* monitor loop and returns true if and only if the loop has stopped by the
\* time it returns (on a monitor thread that has not died of an error).
C20_ShutdownAsStated ==
    [][(ShutdownReturns /\ pc \notin {"crashed", "faulted"}) =>
           /\ shutdown_requested'
           /\ returned' = "True" <=> ~is_alive']_vars

\* C20 amended. With the monitor thread alive shutdown(timeout) sets
\* shutdown_requested, joins the thread and returns true if and only if the
\* thread has ended when the join returns; with no monitor thread alive it
\* returns true at once and leaves shutdown_requested as it was.
C20_Step ==
    /\ (caller_pc = "idle" /\ caller_pc' \in Joins)
          => is_alive /\ shutdown_requested'
    /\ ShutdownReturns => (returned' = "True" <=> ~is_alive')
    /\ (ShutdownReturns /\ caller_pc \in Joins) => shutdown_requested
    /\ (ShutdownReturns /\ caller_pc = "idle")
          => ~is_alive /\ shutdown_requested' = shutdown_requested
C20_Shutdown == [][C20_Step]_vars

\* A shutdown() on a running monitor has returned false: the request is
\* set and the thread is still alive.
C20_Witness ==
    /\ returned = "False"
    /\ caller_pc = "idle"
    /\ is_alive
    /\ shutdown_requested
    /\ ~monitoring_complete

\* C21. force_shutdown() on a monitor thread that is still alive sets both
\* shutdown_requested and monitoring_complete in the call itself, without
\* waiting for the monitor to take a step, and changes no instance status;
\* outside finalization nothing else sets monitoring_complete.
C21_Step ==
    /\ (caller_pc = "cleanup_force" /\ caller_pc' # caller_pc) =>
          /\ caller_pc' = "idle"
          /\ is_alive => (shutdown_requested' /\ monitoring_complete')
          /\ status' = status
          /\ monitor' = monitor
    /\ (monitoring_complete' # monitoring_complete /\ pc' = pc) =>
          /\ is_alive
          /\ caller_pc \in {"idle", "cleanup_force"}
          /\ caller_pc' = "idle"
          /\ shutdown_requested' /\ monitoring_complete'
          /\ status' = status
          /\ monitor' = monitor
C21_ForceShutdown == [][C21_Step]_vars

\* force_shutdown() was called, with no shutdown() before it, while the
\* monitor was inside a tick and an instance was running.
C21_Witness ==
    /\ pc = "tick"
    /\ monitoring_complete
    /\ shutdown_requested
    /\ returned = "none"
    /\ \E f \in DOMAIN status : status[f] = "RUNNING"

\* C22. cleanup() first attempts the graceful shutdown (the request is set
\* and the thread joined when it is alive) and goes on to force_shutdown if
\* and only if that shutdown returned false.
C22_Forced == caller_pc = "cleanup_force" => returned = "False"
C22_Step ==
    /\ (caller_pc = "idle" /\ caller_pc' = "cleanup_join") =>
          /\ is_alive
          /\ shutdown_requested'
          /\ monitoring_complete' = monitoring_complete
    /\ (caller_pc = "cleanup_join" /\ caller_pc' # caller_pc) =>
          /\ returned' \in {"True", "False"}
          /\ caller_pc' = IF returned' = "False" THEN "cleanup_force" ELSE "idle"
          /\ flags' = flags
    /\ (caller_pc' = "cleanup_force" /\ caller_pc # "cleanup_force") =>
          caller_pc = "cleanup_join"
    /\ (caller_pc = "cleanup_force" /\ caller_pc' # caller_pc) =>
          <<monitoring_complete', shutdown_requested'>> =
              force_shutdown(is_alive, monitoring_complete, shutdown_requested)
C22_Cleanup == []C22_Forced /\ [][C22_Step]_vars

\* The join of cleanup() has timed out on a monitor that is still in its
\* loop: its shutdown() returned false and force_shutdown is about to run.
C22_Witness ==
    /\ caller_pc = "cleanup_force"
    /\ returned = "False"
    /\ is_alive
    /\ ~monitoring_complete

C24_Ended == (shutdown_requested /\ ~is_alive) => pc = "done"
C24_Step ==
    /\ (shutdown_requested /\ pc = "tick" /\ MonitorMoves) => pc' \in {"tick", "tick_end"}
    /\ (shutdown_requested /\ pc' = "tick") => pc = "tick"
    /\ (shutdown_requested /\ pc = "loop_head" /\ MonitorMoves) => pc' = "finish"
C24_Cooperative == []C24_Ended /\ [][C24_Step]_vars

\* C25. When a required environment variable is unset, construction fails
\* with InitializationError, and then no monitor thread and no log monitor
\* thread has been started, no instance built, and none ever is.
C25_NothingStarted ==
    pc = "InitializationError" =>
        /\ ~is_alive
        /\ log_pc = "new"
        /\ status = <<>>
C25_Step ==
    /\ (pc = "unconstructed" /\ pc' # pc) =>
          /\ (\E var \in REQUIRED_ENV_VARS : env[var] = "unset")
                => pc' = "InitializationError"
          /\ pc' \in {"InitializationError", "init"}
          /\ ~is_alive' /\ log_pc' = "new"
    /\ pc = "InitializationError" => pc' = pc
C25_InitializationError == []C25_NothingStarted /\ [][C25_Step]_vars

\* Construction has failed in an environment in which only GITHUB_REF_NAME
\* is unset.
C25_Witness ==
    /\ pc = "InitializationError"
    /\ env["GITHUB_REF_NAME"] = "unset"
    /\ \A var \in REQUIRED_ENV_VARS \ {"GITHUB_REF_NAME"} : env[var] = "set"

\* C26. object_exists(key) returns false when the store reports not-found
\* and true when the object exists; it raises S3ClientError only for a
\* store failure other than not-found, never for not-found.
C26_ObjectExists ==
    (s3_result # <<>> /\ s3_result.op = "object_exists") =>
        /\ (s3_result.fault = "none" /\ ~s3_result.present) => s3_result.result = "False"
        /\ (s3_result.fault = "none" /\ s3_result.present) => s3_result.result = "True"
        /\ s3_result.result = "S3ClientError" => s3_result.fault \in ClientErrorCodes
        /\ s3_result.result = "False" => (s3_result.fault = "none" /\ ~s3_result.present)

\* object_exists has answered false for a key that holds no object while
\* another key holds one.
C26_Witness ==
    /\ s3_result # <<>>
    /\ s3_result.op = "object_exists"
    /\ s3_result.result = "False"
    /\ store # {}
    /\ s3_result.key \notin store

\* C27. The monitor never calls set_status on an instance whose status is
\* already final, in a tick, in the failure cascade or in finalization, so
\* the fatal rejection of set_status never ends its thread.
C27_NoFinalOverwrite ==
    /\ pc # "crashed"
    /\ pc = "cascade" =>
          LET f == FunctionOrder(workflow)[idx]
          IN  ~has_completed(status[f]) => ~has_final_state(status[f])

AllFinal == \A f \in DOMAIN status : status[f] \in Final

\* C28 as stated. Whenever monitoring_complete is true every instance has a
\* final status, under every interleaving of the monitor with shutdown,
\* force_shutdown and cleanup.
C28_CompleteAsStated == monitoring_complete => AllFinal

\* C28 amended. Whenever finalization has set monitoring_complete (the
\* monitor thread has ended through _finish_monitoring) every instance has
\* a final status, under every interleaving; monitoring_complete is true
\* with an instance not final only after a force_shutdown() on a thread
\* that has not finished finalization.
C28_SetByFinalization ==
    /\ pc = "done" => (monitoring_complete /\ AllFinal)
    /\ (monitoring_complete /\ ~AllFinal) => (shutdown_requested /\ pc # "done")
C28_Step ==
    (monitoring_complete' /\ ~monitoring_complete /\ pc' = "done") =>
        (pc = "finish" /\ AllFinal /\ status' = status)
C28_CompleteImpliesFinal == []C28_SetByFinalization /\ [][C28_Step]_vars

\* Finalization has ended after a shutdown() whose join had timed out:
\* the loop was left on the request and every instance is final.
C28_Witness ==
    /\ pc = "done"
    /\ monitoring_complete
    /\ returned = "False"
    /\ exit_cause = "shutdown"
    /\ \E f \in DOMAIN status : status[f] = "SKIPPED"
    /\ \E f \in DOMAIN status : status[f] = "NOT_INVOKED"

\* C29. Under fair scheduling and without store exceptions the monitor loop
\* always terminates: monitoring_complete eventually becomes true and every
\* instance eventually holds a final status, so a caller that polls an
\* instance until its status is final (wait_for) always returns or raises.
C29_Terminates == <>(monitoring_complete /\ AllFinal)

\* C30. All the instances whose status finalization changes in one run
\* receive the same status, all SKIPPED or all TIMEOUT, also when a
\* shutdown is requested while finalization is going over the instances.
\* (TIMEOUT is only ever set by finalization, and SKIPPED only by it unless
\* the loop was left through the failure cascade.)
C30_SameFinalStatus ==
    (pc \in {"finish", "done"} /\ exit_cause # "failure") =>
        ~(/\ \E f \in DOMAIN status : status[f] = "TIMEOUT"
          /\ \E f \in DOMAIN status : status[f] = "SKIPPED")

\* The invocations that were known when the current tick began.
KnownAtTickStart == [g \in Names |-> IF g \in tick_known THEN invocations[g] ELSE None]

\* C31. In every tick the resolver is run for every instance that is
\* PENDING in that tick and every decisive result is committed, also in a
\* tick that finds an instance FAILED, before the cascade is applied: when
\* the for loop of a tick is over, no instance is left PENDING for which
\* the resolver was decisive on what was known when the tick began.
C31_AllPendingResolved ==
    pc = "tick_end" =>
        \A f \in DOMAIN status :
            pending(status[f]) =>
                _check_invocation_status(
                    workflow, set_order[Base(f)], KnownAtTickStart, f) = "PENDING"

\* C32. For an append-only artifact, after every poll that reads it the
\* buffer equals the lines of the artifact as read in that poll (its text
\* without the blank lines at its ends): no line is lost, whatever the
\* artifact held at the first read, an empty artifact included.
C32_BufferEqualsRead ==
    [][(log_pc = "loop" /\ log_pc' = "check") => logs' = strip(artifact[1])]_vars

\* C33. Once stop() has been called on a running log monitor, the monitor
\* eventually fires LOG_COMPLETE and its poll loop ends, whether or not the
\* log artifact has ever appeared (the artifact stops growing at MaxLines).
C33_StopCompletes ==
    (stop_requested /\ log_pc \in {"loop", "check"})
        ~> (log_pc = "ended" /\ "LOG_COMPLETE" \in Range(events))

\* Position of a status on PENDING -> {INVOKED, NOT_INVOKED} -> RUNNING ->
\* {COMPLETED, FAILED}; SKIPPED and TIMEOUT are not on it.
ChainRank(s) ==
    IF s = "PENDING" THEN 0
    ELSE IF s \in {"INVOKED", "NOT_INVOKED"} THEN 1
    ELSE IF s = "RUNNING" THEN 2
    ELSE IF s \in {"COMPLETED", "FAILED"} THEN 3
    ELSE 4
OnChain(s) == ChainRank(s) < 4

\* C34. A step of the monitor thread that sets an instance to INVOKED or
\* NOT_INVOKED finds that instance PENDING, and no step of the monitor thread
\* takes an instance from a status to one earlier on PENDING -> {INVOKED,
\* NOT_INVOKED} -> RUNNING -> {COMPLETED, FAILED}.
C34_MonitorMonotone ==
    [][MonitorMoves =>
          \A f \in DOMAIN status :
              /\ (status'[f] \in {"INVOKED", "NOT_INVOKED"} /\ status'[f] # status[f])
                     => status[f] = "PENDING"
              /\ (OnChain(status[f]) /\ OnChain(status'[f]))
                     => ChainRank(status'[f]) >= ChainRank(status[f])]_vars
\* The monitor has set one instance to INVOKED and another to NOT_INVOKED.
C34_Witness ==
    \E f, g \in DOMAIN status :
        /\ status[f] = "INVOKED" /\ prev_statuses[f] = "INVOKED"
        /\ status[g] = "NOT_INVOKED" /\ prev_statuses[g] = "NOT_INVOKED"

\* cleanup() returns in this step: at once because no thread is alive, from
\* its join with shutdown() giving True, or from its force_shutdown().
CleanupReturns ==
    \/ Cleanup /\ caller_pc' = "idle"
    \/ caller_pc \in {"cleanup_join", "cleanup_force"} /\ caller_pc' = "idle"

\* C35. When cleanup() returns on a runner whose monitoring was started,
\* monitoring_complete is true, whether the monitor thread ended by leaving
\* its loop, was still alive at the join timeout, or died from an error.
C35_CleanupCompletes ==
    [][CleanupReturns => monitoring_complete']_vars

\* A call of shutdown().
ShutdownCall == Shutdown \/ ShutdownBeforeStart
\* The while loop of _start_monitoring has been left, or was never entered.
LoopExited == pc \in {"init", "finish", "done", "crashed", "faulted"}

\* C36 as stated. shutdown() called when the monitor loop has been left, or
\* was never started, leaves shutdown_requested, monitoring_complete and
\* every instance status as they were.
C36_FrameAsStated ==
    [][(ShutdownCall /\ LoopExited) =>
          UNCHANGED <<shutdown_requested, monitoring_complete, status>>]_vars
\* C36. shutdown() called when no monitor thread is alive (the thread has
\* ended, finalization included, or the runner was never started) returns
\* true and leaves shutdown_requested, monitoring_complete and every instance
\* status as they were: an instance finalized as TIMEOUT stays TIMEOUT.
C36_Frame ==
    [][(ShutdownCall /\ ~is_alive) =>
          /\ returned' = "True"
          /\ UNCHANGED <<shutdown_requested, monitoring_complete, status>>]_vars
\* shutdown() has returned true on a run that ended by timeout: an instance
\* is TIMEOUT and no shutdown was ever requested.
C36_Witness ==
    /\ pc = "done"
    /\ returned = "True"
    /\ ~shutdown_requested
    /\ \E f \in DOMAIN status : status[f] = "TIMEOUT"

\* C37. A poll of the logger whose store call fails with an error other
\* than not-found lets the error out of _run, fires no event, and leaves the
\* log buffer, logs_started and logs_complete as they were before the poll.
C37_FailedPoll ==
    [][LogPollFails =>
          /\ log_pc' = "faulted"
          /\ UNCHANGED <<logs, logs_started, logs_complete, events, delivered>>]_vars
\* The read of a started log has failed with lines in the buffer, a callback
\* registered and more lines in the artifact than in the buffer: no
\* LOG_COMPLETE was fired.
C37_Witness ==
    /\ log_pc = "faulted"
    /\ logs_started
    /\ logs # <<>>
    /\ callbacks # <<>>
    /\ Len(artifact[1]) > Len(logs)
    /\ "LOG_COMPLETE" \notin Range(events)

Visited(f) ==
    /\ pc = "tick"
    /\ pc' \in {"tick", "tick_end"}
    /\ MonitorMoves
    /\ FunctionOrder(workflow)[idx] = f

C40_NotFoundDistinct ==
    (/\ s3_result # <<>>
     /\ s3_result.op = "get_object"
     /\ s3_result.fault = "none"
     /\ ~s3_result.present)
        => \A fault \in ClientErrorCodes \cup OtherExceptions :
              get_object(StoreResponse(s3_result.present, fault)) # s3_result.result

====
